---------------------------- MODULE Spec2Model ----------------------------
(***************************************************************************)
(* A model of co_occurrence.py: distinct_words, compute_co_occurrence_     *)
(* matrix and reduce_to_k_dim, called by a harness on one corpus.          *)
(*                                                                         *)
(* A token is a Python str, modelled as the sequence of its code points,   *)
(* so that the order used by sorted() is computed, not assumed.  A numpy   *)
(* matrix is a record of its shape and its cells, indexed from 0.          *)
(***************************************************************************)
EXTENDS Integers, Sequences, FiniteSets

VARIABLES
    corpus,            \* the corpus object the caller passes (list of list of str)
    window_size,       \* the window_size argument the caller passes
    corpus_words,      \* distinct_words: the returned list
    num_corpus_words,  \* distinct_words: the returned count
    M,                 \* compute_co_occurrence_matrix: the matrix as it was returned
    word2Ind,          \* compute_co_occurrence_matrix: the returned dict
    svd_call,          \* reduce_to_k_dim: the TruncatedSVD run it made
    np_random_state,   \* numpy's process-wide generator: its last seeding, and
                       \* what ran on it since
    outcome            \* per function: "not_called", "returned" or the exception
                       \* raised; "in_sklearn" once reduce_to_k_dim reached fit_transform

vars == <<corpus, window_size, corpus_words, num_corpus_words, M, word2Ind,
          svd_call, np_random_state, outcome>>

-----------------------------------------------------------------------------
(* Bounds of the generated inputs.                                         *)

\* Most documents in a generated corpus.
MaxDocs == 2

\* Most tokens in a generated corpus, over all its documents.
MaxCorpusLen == 3

\* Largest generated window size.
MaxWindow == 2

-----------------------------------------------------------------------------
(* Program constants.                                                      *)

\* np.random.seed(4355)
SEED == 4355

\* n_iters = 10
n_iters == 10

-----------------------------------------------------------------------------
(* Tokens.                                                                 *)

tok_B == <<66>>
tok_b == <<98>>
tok_ab == <<97, 98>>

tok_START == <<83, 84, 65, 82, 84>>
tok_All == <<65, 108, 108>>
tok_that == <<116, 104, 97, 116>>
tok_glitters == <<103, 108, 105, 116, 116, 101, 114, 115>>
tok_is == <<105, 115>>
tok_not == <<110, 111, 116>>
tok_gold == <<103, 111, 108, 100>>
tok_END == <<69, 78, 68>>
tok_well == <<119, 101, 108, 108>>
tok_ends == <<101, 110, 100, 115>>

\* The tokens of the generated corpora: "B", "b" and "ab".
Tokens == {tok_B, tok_b, tok_ab}

\* The document of the docstring of compute_co_occurrence_matrix.
DocstringDocument ==
    <<tok_START, tok_All, tok_that, tok_glitters, tok_is, tok_not, tok_gold, tok_END>>

DocstringCorpus == <<DocstringDocument>>

\* The two-document corpus "All that glitters is not gold" / "All is well that ends well".
ScenarioCorpus ==
    << <<tok_All, tok_that, tok_glitters, tok_is, tok_not, tok_gold>>,
       <<tok_All, tok_is, tok_well, tok_that, tok_ends, tok_well>> >>

\* Documents of at most n tokens.
Documents(n) == UNION {[1..len -> Tokens] : len \in 0..n}

\* Corpora of exactly docs documents holding at most budget tokens in all.
RECURSIVE CorporaOf(_, _)
CorporaOf(docs, budget) ==
    IF docs = 0 THEN {<<>>}
    ELSE UNION {{<<doc>> \o rest : rest \in CorporaOf(docs - 1, budget - Len(doc))}
                : doc \in Documents(budget)}

Corpora == UNION {CorporaOf(docs, MaxCorpusLen) : docs \in 0..MaxDocs}

WindowSizes == (0 - 1)..MaxWindow

\* The (corpus, window_size) arguments a run is made on.
Inputs ==
    (Corpora \X WindowSizes)
        \cup {<<ScenarioCorpus, 2>>, <<DocstringCorpus, 4>>}

-----------------------------------------------------------------------------
(* Python and numpy primitives.                                            *)

Range(s) == {s[i] : i \in 1..Len(s)}

Min(a, b) == IF a < b THEN a ELSE b

\* str.__lt__: code point by code point, a proper prefix first.
RECURSIVE StrLess(_, _)
StrLess(a, b) ==
    IF a = <<>> THEN b # <<>>
    ELSE IF b = <<>> THEN FALSE
    ELSE IF a[1] # b[1] THEN a[1] < b[1]
    ELSE StrLess(Tail(a), Tail(b))

\* Insertion of x into an ascending list, after the entries not greater than x.
Insert(s, x) ==
    LET k == Cardinality({i \in 1..Len(s) : ~StrLess(x, s[i])})
    IN  SubSeq(s, 1, k) \o <<x>> \o SubSeq(s, k + 1, Len(s))

\* sorted(list(a_set)): every list the expression can yield.  list() yields the
\* elements of a set of str in an order that is not specified (it follows the
\* per-process string hashes), so each x of S can come last, after the others in
\* any order; sorted() puts each element in its place among those before it.
RECURSIVE sorted_list_of_set(_)
sorted_list_of_set(S) ==
    IF S = {} THEN {<<>>}
    ELSE UNION {{Insert(r, x) : r \in sorted_list_of_set(S \ {x})} : x \in S}

\* a_list[idx], idx from 0; a negative idx counts from the end.
PyItem(s, idx) == IF idx < 0 THEN s[Len(s) + idx + 1] ELSE s[idx + 1]

\* None, where a matrix is expected.
None == [shape |-> <<>>, cells |-> <<>>]

\* np.zeros((n, n))
np_zeros(n) ==
    [shape |-> <<n, n>>, cells |-> [ij \in (0..(n - 1)) \X (0..(n - 1)) |-> 0]]

\* np.random.seed(seed): the generator restarts from seed.
np_random_seed(seed) == [seeded |-> TRUE, seed |-> seed, used_by |-> ""]

\* The generator as the process starts: seeded by the operating system.
np_random_initial == [seeded |-> FALSE, seed |-> 0, used_by |-> ""]

-----------------------------------------------------------------------------
(* distinct_words                                                          *)

\* The set built by the two loops: every word of every sentence.
WordSet(c) == UNION {Range(c[d]) : d \in 1..Len(c)}

\* The words of the corpus in reading order, each at its first occurrence.
RECURSIVE FirstSeen(_, _)
FirstSeen(words, seen) ==
    IF words = <<>> THEN <<>>
    ELSE IF words[1] \in seen THEN FirstSeen(Tail(words), seen)
    ELSE <<words[1]>> \o FirstSeen(Tail(words), seen \cup {words[1]})

RECURSIVE Flatten(_)
Flatten(c) == IF c = <<>> THEN <<>> ELSE c[1] \o Flatten(Tail(c))

\* distinct_words with the sort left out and the words kept as first met.
distinct_words_unsorted(c) ==
    LET words == FirstSeen(Flatten(c), {})
    IN  {<<words, Len(words)>>}

\* distinct_words with the count assigned only once a word was met, so that
\* it keeps its initial -1 on a corpus without words.
distinct_words_keeps_initial(c) ==
    {<<words, IF words = <<>> THEN 0 - 1 ELSE Len(words)>> :
        words \in sorted_list_of_set(WordSet(c))}

\* distinct_words(corpus): every (corpus_words, num_corpus_words) it can return.
distinct_words(c) ==
    {<<words, Len(words)>> : words \in sorted_list_of_set(WordSet(c))}

-----------------------------------------------------------------------------
(* compute_co_occurrence_matrix                                            *)

\* for i, w in enumerate(words): word2Ind[w] = i
Enumerated(words) ==
    [w \in Range(words) |->
        (CHOOSE i \in 1..Len(words) :
            /\ words[i] = w
            /\ \A j \in 1..Len(words) : words[j] = w => j <= i) - 1]

\* The range with its stop one short: the offset i + window_size is left out.
WindowRange_short(i, w) == <<i - w, i + w>>

\* The range with its stop one far: the offset i + window_size + 1 is taken in.
WindowRange_long(i, w) == <<i - w, i + w + 2>>

\* range(i - window_size, i + window_size + 1), as <<start, stop>>.
WindowRange(i, w) == <<i - w, i + w + 1>>

\* The condition without (offset != i): the centre word counts itself.
InWindow_with_centre(offset, i, sentence) == offset >= 0 /\ offset < Len(sentence)

\* (offset != i) and (offset >= 0) and offset < len(sentence)
InWindow(offset, i, sentence) == offset # i /\ offset >= 0 /\ offset < Len(sentence)

\* range(start, stop) as a list.
PyRange(r) == [n \in 1..(r[2] - r[1]) |-> r[1] + n - 1]

\* for offset in range(...): the <<row, col>> of each M[row, col] += 1 that the
\* loop at position i runs, in the order it runs them.
OffsetLoop(w2i, sentence, i, w) ==
    LET row == w2i[PyItem(sentence, i)]
        taken == SelectSeq(PyRange(WindowRange(i, w)),
                           LAMBDA offset : InWindow(offset, i, sentence))
    IN  [n \in 1..Len(taken) |-> <<row, w2i[PyItem(sentence, taken[n])]>>]

\* for i, word in enumerate(sentence): the increments from position i on.
RECURSIVE WordLoop(_, _, _, _)
WordLoop(w2i, sentence, i, w) ==
    IF i >= Len(sentence) THEN <<>>
    ELSE OffsetLoop(w2i, sentence, i, w) \o WordLoop(w2i, sentence, i + 1, w)

\* for sentence in corpus: the increments from document d on.
RECURSIVE SentenceLoop(_, _, _, _)
SentenceLoop(w2i, c, d, w) ==
    IF d > Len(c) THEN <<>>
    ELSE WordLoop(w2i, c[d], 0, w) \o SentenceLoop(w2i, c, d + 1, w)

\* M after the increments incs, each M[row, col] += 1, ran on it.
Incremented(Mc, incs) ==
    [Mc EXCEPT !.cells =
        [ij \in DOMAIN @ |-> @[ij] + Cardinality({n \in 1..Len(incs) : incs[n] = ij})]]

\* Lines 58 to 79, after words, num_words = distinct_words(corpus) gave dw:
\* what reaches the caller.  word2Ind[word] raises KeyError for a word that is
\* no key of word2Ind.
ComputeFrom(c, w, dw) ==
    LET words == dw[1]
        num_words == dw[2]
        w2i == Enumerated(words)
    IN  IF \E word \in WordSet(c) : word \notin DOMAIN w2i
        THEN [raised |-> "KeyError", M |-> None, word2Ind |-> <<>>]
        ELSE [raised |-> "",
              M |-> Incremented(np_zeros(num_words), SentenceLoop(w2i, c, 1, w)),
              word2Ind |-> w2i]

\* compute_co_occurrence_matrix(corpus, window_size): every outcome it can have.
compute_co_occurrence_matrix(c, w) ==
    {ComputeFrom(c, w, dw) : dw \in distinct_words(c)}

-----------------------------------------------------------------------------
(* The harness: one corpus, the three functions called in any order.       *)

Functions == {"distinct_words", "compute_co_occurrence_matrix", "reduce_to_k_dim"}

\* corpus_words = [], num_corpus_words = -1, M = None, word2Ind = {}
Init ==
    /\ \E in \in Inputs : corpus = in[1] /\ window_size = in[2]
    /\ corpus_words = <<>>
    /\ num_corpus_words = 0 - 1
    /\ M = None
    /\ word2Ind = <<>>
    /\ svd_call = <<>>
    /\ np_random_state = np_random_initial
    /\ outcome = [f \in Functions |-> "not_called"]

\* A call of distinct_words(corpus).
CallDistinctWords ==
    \E dw \in distinct_words(corpus) :
        /\ corpus_words' = dw[1]
        /\ num_corpus_words' = dw[2]
        /\ outcome' = [outcome EXCEPT !["distinct_words"] = "returned"]
        /\ UNCHANGED <<corpus, window_size, M, word2Ind, svd_call, np_random_state>>

\* A call of compute_co_occurrence_matrix(corpus, window_size).
CallComputeCoOccurrenceMatrix ==
    \E res \in compute_co_occurrence_matrix(corpus, window_size) :
        /\ M' = res.M
        /\ word2Ind' = res.word2Ind
        /\ outcome' = [outcome EXCEPT !["compute_co_occurrence_matrix"] =
                          IF res.raised = "" THEN "returned" ELSE res.raised]
        /\ UNCHANGED <<corpus, window_size, corpus_words, num_corpus_words,
                       svd_call, np_random_state>>

\* The k reduce_to_k_dim is called with on X: from -1 and 0 (not supported)
\* to one more than the number of rows.
ReduceDimensions(X) == (0 - 1)..((IF X = None THEN 0 ELSE X.shape[1]) + 1)

\* A call of reduce_to_k_dim(M, k), at any time, on what the caller holds as M
\* (None before compute_co_occurrence_matrix returned).  Line 94 seeds the
\* global generator.  Line 97 reads M.shape[0], which raises AttributeError on
\* None.  Then TruncatedSVD(n_components=k, n_iter=n_iters).fit_transform(M)
\* runs with no random_state of its own, that is, on the global generator: its
\* state is then the one that seed and that run leave.  What scikit-learn
\* returns, raises or does to the array is not part of the model: M keeps what
\* compute_co_occurrence_matrix returned.
CallReduceToKDim ==
    \E k \in ReduceDimensions(M) :
        /\ IF M = None
           THEN /\ np_random_state' = np_random_seed(SEED)
                /\ svd_call' = svd_call
                /\ outcome' = [outcome EXCEPT !["reduce_to_k_dim"] = "AttributeError"]
           ELSE /\ np_random_state' =
                       [np_random_seed(SEED) EXCEPT !.used_by = "fit_transform"]
                /\ svd_call' = <<[n_components |-> k, n_iter |-> n_iters,
                                  rows |-> M.shape[1]]>>
                /\ outcome' = [outcome EXCEPT !["reduce_to_k_dim"] = "in_sklearn"]
        /\ UNCHANGED <<corpus, window_size, corpus_words, num_corpus_words, M, word2Ind>>

Next ==
    \/ CallDistinctWords
    \/ CallComputeCoOccurrenceMatrix
    \/ CallReduceToKDim

Spec == Init /\ [][Next]_vars

-----------------------------------------------------------------------------
(* Properties.                                                             *)

Called(f) == outcome[f] # "not_called"

Returned(f) == outcome[f] = "returned"

\* M[a, b] of the returned matrix.
Cell(a, b) == M.cells[<<a, b>>]

\* M[word2Ind[t], word2Ind[u]] of the returned matrix.
Count(t, u) == Cell(word2Ind[t], word2Ind[u])

\* The positions of the corpus: <<document, position>>, both from 1.
Positions ==
    UNION {{<<d, p>> : p \in 1..Len(corpus[d])} : d \in 1..Len(corpus)}

\* The <<document, p, q>> with token t at p and token u at another position q
\* of the same document, at most window_size away.
WindowPairs(t, u) ==
    UNION {{<<d, p, q>> : p \in 1..Len(corpus[d]), q \in 1..Len(corpus[d])}
           : d \in 1..Len(corpus)}
    \cap {dpq \in (1..Len(corpus)) \X Int \X Int :
            LET d == dpq[1]
                p == dpq[2]
                q == dpq[3]
            IN  /\ p # q
                /\ p - q <= window_size
                /\ q - p <= window_size
                /\ corpus[d][p] = t
                /\ corpus[d][q] = u}

\* C1: for a window size of at least 1 the returned matrix is V x V over the
\* V distinct tokens, word2Ind numbers them 0..V-1 without repeats, and the
\* entry of tokens (t, u) is the number of pairs of distinct positions of one
\* document, at most window_size apart, holding t and u; positions of
\* different documents are never paired.
C1_CountsWindowPairs ==
    (Returned("compute_co_occurrence_matrix") /\ window_size >= 1) =>
        LET V == Cardinality(WordSet(corpus))
        IN  /\ M.shape = <<V, V>>
            /\ DOMAIN M.cells = (0..(V - 1)) \X (0..(V - 1))
            /\ DOMAIN word2Ind = WordSet(corpus)
            /\ \A t \in WordSet(corpus) : word2Ind[t] \in 0..(V - 1)
            /\ \A t, u \in WordSet(corpus) : t # u => word2Ind[t] # word2Ind[u]
            /\ \A t, u \in WordSet(corpus) : Count(t, u) = Cardinality(WindowPairs(t, u))

\* A two-document run where a pair was counted twice and two tokens that meet
\* only across the document boundary have a zero entry.
C1_Witness ==
    /\ Returned("compute_co_occurrence_matrix")
    /\ window_size >= 1
    /\ Len(corpus) = 2
    /\ \E t, u \in WordSet(corpus) : Count(t, u) >= 2
    /\ \E t \in Range(corpus[1]), u \in Range(corpus[2]) : Count(t, u) = 0

\* C2: for a window size of at least 1 the returned matrix is symmetric.
C2_Symmetric ==
    (Returned("compute_co_occurrence_matrix") /\ window_size >= 1) =>
        \A i, j \in 0..(M.shape[1] - 1) : Cell(i, j) = Cell(j, i)

\* A returned matrix with a non-zero entry off the diagonal.
C2_Witness ==
    /\ Returned("compute_co_occurrence_matrix")
    /\ window_size >= 1
    /\ \E i, j \in 0..(M.shape[1] - 1) : i # j /\ Cell(i, j) > 0

\* C3: distinct_words returns exactly the tokens of the corpus, strictly
\* ascending in lexicographic order (hence each once), and their number; it
\* can return nothing else, in whatever order the set of words is listed.
C3_SortedDistinct ==
    Called("distinct_words") =>
        /\ Returned("distinct_words")
        /\ Range(corpus_words) = WordSet(corpus)
        /\ \A i, j \in 1..Len(corpus_words) :
              i < j => StrLess(corpus_words[i], corpus_words[j])
        /\ num_corpus_words = Len(corpus_words)
        /\ distinct_words(corpus) = {<<corpus_words, num_corpus_words>>}
        /\ (corpus = DocstringCorpus =>
              corpus_words = <<tok_All, tok_END, tok_START, tok_glitters, tok_gold,
                               tok_is, tok_not, tok_that>>)

\* distinct_words returned on a corpus that repeats a token and whose tokens
\* do not first occur in ascending order.
C3_Witness ==
    /\ Returned("distinct_words")
    /\ num_corpus_words >= 2
    /\ Len(Flatten(corpus)) > num_corpus_words
    /\ corpus_words # FirstSeen(Flatten(corpus), {})

\* C4 as stated: on the scenario corpus with window size 2 the entry of
\* ("All", "that") is 2.
C4_AsStated ==
    (Returned("compute_co_occurrence_matrix") /\ corpus = ScenarioCorpus /\ window_size = 2) =>
        Count(tok_All, tok_that) = 2

\* C4 amended: on the scenario corpus with window size 2 the entry of
\* ("All", "that"), and of ("that", "All"), is 1: the two are adjacent in the
\* first document and three positions apart in the second.
C4_Amended ==
    (Returned("compute_co_occurrence_matrix") /\ corpus = ScenarioCorpus /\ window_size = 2) =>
        /\ Count(tok_All, tok_that) = 1
        /\ Count(tok_that, tok_All) = 1

\* The matrix of the scenario corpus was returned for window size 2.
C4_Witness ==
    /\ Returned("compute_co_occurrence_matrix")
    /\ corpus = ScenarioCorpus
    /\ window_size = 2
    /\ M.shape = <<8, 8>>

\* C5 as stated: a call with a window size of zero or less raises
\* InvalidParameter and returns no matrix.
C5_RejectsNonPositiveWindow ==
    (Called("compute_co_occurrence_matrix") /\ window_size <= 0) =>
        /\ outcome["compute_co_occurrence_matrix"] = "InvalidParameter"
        /\ M = None

\* One listing of a set of positions.
RECURSIVE Enumerate(_)
Enumerate(S) ==
    IF S = {} THEN <<>>
    ELSE LET x == CHOOSE y \in S : TRUE
         IN  <<x>> \o Enumerate(S \ {x})

RECURSIVE SumSeq(_)
SumSeq(s) == IF s = <<>> THEN 0 ELSE s[1] + SumSeq(Tail(s))

\* The sum of row a of the returned matrix.
RowSum(a) == SumSeq([b \in 1..M.shape[2] |-> Cell(a, b - 1)])

\* min(p, w) + min(n-1-p, w) for the position p (here from 1) of document d.
Neighbours(d, p) ==
    Min(p - 1, window_size) + Min(Len(corpus[d]) - p, window_size)

\* C6: windows are cut at the document's edges: for a window size w of at
\* least 1, the position p of a document of n tokens runs min(p, w) +
\* min(n-1-p, w) increments, all of them in its token's row, and the rows add
\* up to just that.  For the docstring's document and window size 4, row "All"
\* is 1 at START, that, glitters, is, not and 0 at gold and END.
C6_TruncatedWindows ==
    (Returned("compute_co_occurrence_matrix") /\ window_size >= 1) =>
        /\ \A dp \in Positions :
              LET incs == OffsetLoop(word2Ind, corpus[dp[1]], dp[2] - 1, window_size)
              IN  /\ Len(incs) = Neighbours(dp[1], dp[2])
                  /\ \A n \in 1..Len(incs) : incs[n][1] = word2Ind[corpus[dp[1]][dp[2]]]
        /\ \A t \in WordSet(corpus) :
              LET at == {dp \in Positions : corpus[dp[1]][dp[2]] = t}
                  each == Enumerate(at)
              IN  RowSum(word2Ind[t]) =
                      SumSeq([n \in 1..Len(each) |-> Neighbours(each[n][1], each[n][2])])
        /\ (corpus = DocstringCorpus /\ window_size = 4) =>
              /\ \A u \in {tok_START, tok_that, tok_glitters, tok_is, tok_not} :
                    Count(tok_All, u) = 1
              /\ \A u \in {tok_gold, tok_END} : Count(tok_All, u) = 0

\* The matrix of the docstring's document was returned for window size 4, with
\* "not" in reach of "All" and "gold" out of it.
C6_Witness ==
    /\ Returned("compute_co_occurrence_matrix")
    /\ corpus = DocstringCorpus
    /\ window_size = 4
    /\ Count(tok_All, tok_not) = 1
    /\ Count(tok_All, tok_gold) = 0

\* C7: on a corpus without tokens (no documents, or empty documents only)
\* distinct_words returns the empty list and 0, and
\* compute_co_occurrence_matrix returns a 0 x 0 matrix and an empty mapping;
\* neither raises.
C7_EmptyCorpus ==
    (WordSet(corpus) = {}) =>
        /\ Called("distinct_words") =>
              /\ Returned("distinct_words")
              /\ corpus_words = <<>>
              /\ num_corpus_words = 0
        /\ Called("compute_co_occurrence_matrix") =>
              /\ Returned("compute_co_occurrence_matrix")
              /\ M.shape = <<0, 0>>
              /\ DOMAIN M.cells = {}
              /\ DOMAIN word2Ind = {}

\* Both functions returned on the corpus without documents.
C7_Witness ==
    /\ corpus = <<>>
    /\ Returned("distinct_words")
    /\ Returned("compute_co_occurrence_matrix")

\* C8: no call changes the corpus it is given or the state of the global
\* pseudo-random generator.  (Whether fit_transform writes to the matrix it is
\* given is decided inside scikit-learn and is not stated here.)
C8_NoSideEffects ==
    [][/\ corpus' = corpus
       /\ np_random_state' = np_random_state]_vars

\* The corpus with its documents in the order perm.
Permuted(c, perm) == [d \in 1..Len(c) |-> c[perm[d]]]

Permutations(n) == {f \in [1..n -> 1..n] : \A i, j \in 1..n : f[i] = f[j] => i = j}

\* C10: for a window size of at least 1, the same call on any reordering of
\* the documents returns the same mapping and the same matrix.
C10_DocumentOrderIrrelevant ==
    (Returned("compute_co_occurrence_matrix") /\ window_size >= 1) =>
        \A perm \in Permutations(Len(corpus)) :
            \A res \in compute_co_occurrence_matrix(Permuted(corpus, perm), window_size) :
                /\ res.raised = ""
                /\ res.M = M
                /\ res.word2Ind = word2Ind

\* A returned matrix for two documents that differ, each within reach of a
\* window, whose tokens are first met in another order when the documents swap.
C10_Witness ==
    /\ Returned("compute_co_occurrence_matrix")
    /\ window_size >= 1
    /\ Len(corpus) = 2
    /\ FirstSeen(Flatten(corpus), {}) # FirstSeen(Flatten(Permuted(corpus, <<2, 1>>)), {})
    /\ \E i, j \in 0..(M.shape[1] - 1) : Cell(i, j) > 0

=============================================================================
